---- MODULE Spec2Model ----
(***************************************************************************)
(* CloudStrike scan core: the scan orchestrator (core/scanner.py), the     *)
(* attack path engine (core/attack_engine.py), the risk engine             *)
(* (core/risk_engine.py) and the remediation engine                        *)
(* (remediation/remediation_engine.py).                                    *)
(*                                                                         *)
(* Strings are modelled as sequences of pieces.  A piece is a word (a run  *)
(* of letters and digits), or one of the one-character pieces " ", ":",    *)
(* "-", "'" and the double quote.  The string is the concatenation of its  *)
(* pieces.  str.lower(), the `in` substring test and re.search are         *)
(* computed on that representation.                                        *)
(***************************************************************************)
EXTENDS Integers, Sequences, FiniteSets, TLC

\* ------------------------------------------------------------------------
\* Bounds of the model
\* ------------------------------------------------------------------------

\* longest finding list handed to the engines
MaxFindings == 3

\* longest finding list / attack list handed to RiskEngine.analyze directly
MaxRiskFindings == 2

MaxRiskAttacks == 2

\* longest attack list handed to analyze when top_risks is examined
MaxTopAttacks == 4

\* longest finding list handed to the engines when the resource names of
\* the scripts are examined
MaxResourceFindings == 2

\* scans started while two application instances run
MaxScans == 2

\* scans started by the one instance that fills the ledger
MaxSaves == 52

\* store faults in one run of the two instances
MaxFaults == 1

\* ------------------------------------------------------------------------
\* Strings
\* ------------------------------------------------------------------------

DQ == "\""

SQ == "'"

Quotes == {SQ, DQ}

\* pieces that are not matched by the regex class [\w\-]
NonWordPieces == {" ", ":", SQ, DQ}

IsWordPiece(p) == p \notin NonWordPieces

\* the words of the model's vocabulary that hold an upper-case letter, each
\* with the word str.lower() makes of it
LowerCased ==
    { <<"Public", "public">>,
      <<"S3", "s3">>,
      <<"Bucket", "bucket">>,
      <<"Policy", "policy">>,
      <<"Over", "over">>,
      <<"Permissive", "permissive">>,
      <<"IAM", "iam">>,
      <<"Role", "role">>,
      <<"CloudTrail", "cloudtrail">>,
      <<"Not", "not">>,
      <<"Enabled", "enabled">>,
      <<"Logging", "logging">>,
      <<"Storage", "storage">>,
      <<"Account", "account">>,
      <<"HTTPS", "https">>,
      <<"Enforced", "enforced">>,
      <<"GCS", "gcs">>,
      <<"Versioning", "versioning">>,
      <<"Disabled", "disabled">>,
      <<"AWS", "aws">>,
      <<"Azure", "azure">>,
      <<"GCP", "gcp">>,
      <<"Authentication", "authentication">>,
      <<"Failed", "failed">>,
      <<"Scan", "scan">>,
      <<"Error", "error">>,
      <<"No", "no">>,
      <<"Credentials", "credentials">>,
      <<"Configured", "configured">>,
      <<"Data", "data">>,
      <<"Exfiltration", "exfiltration">>,
      <<"Attack", "attack">>,
      <<"Privilege", "privilege">>,
      <<"Escalation", "escalation">>,
      <<"Stealth", "stealth">>,
      <<"Persistence", "persistence">>,
      <<"Malware", "malware">>,
      <<"Hosting", "hosting">>,
      <<"Mass", "mass">>,
      <<"Leak", "leak">>,
      <<"Man", "man">>,
      <<"Middle", "middle">>,
      <<"Ransomware", "ransomware">>,
      <<"Lateral", "lateral">>,
      <<"Movement", "movement">> }

LowerTable ==
    [p \in { e[1] : e \in LowerCased } |->
        (CHOOSE e \in LowerCased : e[1] = p)[2]]

\* str.lower() on one piece: every other piece of the vocabulary holds no
\* upper-case letter
LowerPiece(p) == IF p \in DOMAIN LowerTable THEN LowerTable[p] ELSE p

\* str.lower()
Lower(s) == [i \in 1..Len(s) |-> LowerPiece(s[i])]

\* the lower-case words of the model's vocabulary that hold another
\* lower-case word of the vocabulary as a proper substring: <<word, part,
\* part is a prefix of word, part is a suffix of word>>
ProperParts ==
    { <<"cloudtrail", "trail", FALSE, TRUE>>,
      <<"notifications", "not", TRUE, FALSE>> }

PieceHas(w, k) == w = k \/ \E e \in ProperParts : e[1] = w /\ e[2] = k

PieceStartsWith(w, k) ==
    w = k \/ \E e \in ProperParts : e[1] = w /\ e[2] = k /\ e[3]

PieceEndsWith(w, k) ==
    w = k \/ \E e \in ProperParts : e[1] = w /\ e[2] = k /\ e[4]

\* the Python test `kw in s` at offset i : the first piece of kw may be the
\* end of a word of s, the last piece the start of one, the others are whole
MatchAt(s, kw, i) ==
    \A j \in 1..Len(kw) :
        IF Len(kw) = 1 THEN PieceHas(s[i], kw[1])
        ELSE IF j = 1 THEN PieceEndsWith(s[i], kw[1])
        ELSE IF j = Len(kw) THEN PieceStartsWith(s[i + j - 1], kw[j])
        ELSE s[i + j - 1] = kw[j]

\* the Python test `kw in s`
Contains(s, kw) ==
    \E i \in 1..(Len(s) - Len(kw) + 1) : MatchAt(s, kw, i)

\* re.search(r"['\"]([\w\-]+)['\"]", s) : the set of <<i, j>> such that a
\* match starts at the quote s[i] and ends at the quote s[j]
QuotedMatches(s) ==
    { m \in (1..Len(s)) \X (1..Len(s)) :
        /\ m[2] > m[1] + 1
        /\ s[m[1]] \in Quotes
        /\ s[m[2]] \in Quotes
        /\ \A k \in (m[1] + 1)..(m[2] - 1) : IsWordPiece(s[k]) }

\* the keywords of the rule chains, lower-case
KW_public_s3 == <<"public", " ", "s3">>

KW_public_s3_bucket == <<"public", " ", "s3", " ", "bucket">>

KW_over_permissive_iam == <<"over", "-", "permissive", " ", "iam">>

KW_cloudtrail == <<"cloudtrail">>

KW_not == <<"not">>

KW_disabled == <<"disabled">>

KW_public_storage == <<"public", " ", "storage">>

KW_public_gcs == <<"public", " ", "gcs">>

KW_https == <<"https">>

KW_not_enforced == <<"not", " ", "enforced">>

KW_versioning == <<"versioning">>

KW_role == <<"role">>

KW_trail == <<"trail">>

KW_storage == <<"storage">>

KW_bucket == <<"bucket">>

KW_persistence == <<"persistence">>

KW_privilege_escalation == <<"privilege", " ", "escalation">>

\* dict.get(key, default)
Get(d, key, default) == IF key \in DOMAIN d THEN d[key] ELSE default

\* ------------------------------------------------------------------------
\* AttackEngine.generate_attack_paths (core/attack_engine.py)
\* ------------------------------------------------------------------------

\* the fixed text of each branch: title, severity, and the step list and
\* impact text, which are constants of the branch and are named by its key
AttackTemplate(key) ==
    CASE key = "s3_exfiltration" ->
            [title |-> <<"S3", " ", "Data", " ", "Exfiltration", " ", "Attack">>,
             severity |-> "Critical"]
      [] key = "iam_escalation" ->
            [title |-> <<"Privilege", " ", "Escalation", " ", "Attack">>,
             severity |-> "Critical"]
      [] key = "stealth_persistence" ->
            [title |-> <<"Stealth", " ", "Persistence", " ", "Attack">>,
             severity |-> "Critical"]
      [] key = "azure_malware" ->
            [title |-> <<"Malware", " ", "Hosting", " ", "Attack">>,
             severity |-> "Critical"]
      [] key = "gcs_leak" ->
            [title |-> <<"Mass", " ", "Data", " ", "Leak", " ", "Attack">>,
             severity |-> "Critical"]
      [] key = "mitm_attack" ->
            [title |-> <<"Man", "-", "in", "-", "the", "-", "Middle", " ", "Attack">>,
             severity |-> "Warning"]
      [] key = "ransomware_attack" ->
            [title |-> <<"Ransomware", " ", "Attack">>,
             severity |-> "Critical"]

AttackKeys ==
    {"s3_exfiltration", "iam_escalation", "stealth_persistence",
     "azure_malware", "gcs_leak", "mitm_attack", "ransomware_attack"}

\* the chain without the processed_types tests
AttackBranch_NoDedup(title, processed_types) ==
    IF Contains(title, KW_public_s3) THEN "s3_exfiltration"
    ELSE IF Contains(title, KW_over_permissive_iam) THEN "iam_escalation"
    ELSE IF Contains(title, KW_cloudtrail) /\ Contains(title, KW_not)
        THEN "stealth_persistence"
    ELSE IF Contains(title, KW_public_storage) THEN "azure_malware"
    ELSE IF Contains(title, KW_public_gcs) THEN "gcs_leak"
    ELSE IF Contains(title, KW_https) /\ Contains(title, KW_not_enforced)
        THEN "mitm_attack"
    ELSE IF Contains(title, KW_versioning) /\ Contains(title, KW_disabled)
        THEN "ransomware_attack"
    ELSE "none"

\* the if/elif chain of the loop body: the key of the branch that is taken
\* for the lower-cased title, "none" when no condition holds.  A branch
\* whose key is already in processed_types is not taken and the chain goes
\* on to the next elif.
AttackBranch(title, processed_types) ==
    IF Contains(title, KW_public_s3)
          /\ "s3_exfiltration" \notin processed_types
        THEN "s3_exfiltration"
    ELSE IF Contains(title, KW_over_permissive_iam)
          /\ "iam_escalation" \notin processed_types
        THEN "iam_escalation"
    ELSE IF Contains(title, KW_cloudtrail) /\ Contains(title, KW_not)
          /\ "stealth_persistence" \notin processed_types
        THEN "stealth_persistence"
    ELSE IF Contains(title, KW_public_storage)
          /\ "azure_malware" \notin processed_types
        THEN "azure_malware"
    ELSE IF Contains(title, KW_public_gcs)
          /\ "gcs_leak" \notin processed_types
        THEN "gcs_leak"
    ELSE IF Contains(title, KW_https) /\ Contains(title, KW_not_enforced)
          /\ "mitm_attack" \notin processed_types
        THEN "mitm_attack"
    ELSE IF Contains(title, KW_versioning) /\ Contains(title, KW_disabled)
          /\ "ransomware_attack" \notin processed_types
        THEN "ransomware_attack"
    ELSE "none"

\* the iteration with insert(0, ...) in place of append
AttackLoopBody_Prepend(acc, finding) ==
    LET title == Lower(Get(finding, "title", <<>>))
        cloud == Get(finding, "cloud", "Unknown")
        key == AttackBranch(title, acc.processed_types)
    IN  IF key = "none" THEN acc
        ELSE [attack_paths |->
                  <<[title |-> AttackTemplate(key).title,
                     severity |-> AttackTemplate(key).severity,
                     cloud |-> cloud,
                     steps |-> key,
                     impact |-> key]>> \o acc.attack_paths,
              processed_types |-> acc.processed_types \cup {key}]

\* one iteration of `for finding in findings`; acc holds attack_paths and
\* processed_types
AttackLoopBody(acc, finding) ==
    LET title == Lower(Get(finding, "title", <<>>))
        cloud == Get(finding, "cloud", "Unknown")
        key == AttackBranch(title, acc.processed_types)
    IN  IF key = "none" THEN acc
        ELSE [attack_paths |->
                  Append(acc.attack_paths,
                         [title |-> AttackTemplate(key).title,
                          severity |-> AttackTemplate(key).severity,
                          cloud |-> cloud,
                          steps |-> key,
                          impact |-> key]),
              processed_types |-> acc.processed_types \cup {key}]

RECURSIVE AttackLoop(_, _)
AttackLoop(acc, findings) ==
    IF findings = <<>> THEN acc
    ELSE AttackLoop(AttackLoopBody(acc, Head(findings)), Tail(findings))

generate_attack_paths(findings) ==
    AttackLoop([attack_paths |-> <<>>, processed_types |-> {}],
               findings).attack_paths

\* ------------------------------------------------------------------------
\* RemediationEngine.generate (remediation/remediation_engine.py)
\* ------------------------------------------------------------------------

RESOURCE_NAME == <<"<RESOURCE_NAME>">>

\* group(0) in place of group(1)
ResourceName_WholeMatch(s) ==
    LET M == QuotedMatches(s)
    IN  IF M = {} THEN RESOURCE_NAME
        ELSE LET m == CHOOSE x \in M : \A y \in M : x[1] <= y[1]
             IN  SubSeq(s, m[1], m[2])

\* the empty string in place of "<RESOURCE_NAME>"
ResourceName_NoDefault(s) ==
    LET M == QuotedMatches(s)
    IN  IF M = {} THEN <<>>
        ELSE LET m == CHOOSE x \in M : \A y \in M : x[1] <= y[1]
             IN  SubSeq(s, m[1] + 1, m[2] - 1)

\* bucket_match.group(1) if bucket_match else "<RESOURCE_NAME>" : re.search
\* returns the leftmost match
ResourceName(s) ==
    LET M == QuotedMatches(s)
    IN  IF M = {} THEN RESOURCE_NAME
        ELSE LET m == CHOOSE x \in M : \A y \in M : x[1] <= y[1]
             IN  SubSeq(s, m[1] + 1, m[2] - 1)

\* the chain without the processed_types tests
RemediationBranch_NoDedup(title, cloud, processed_types) ==
    IF Contains(title, KW_public_s3_bucket) THEN "s3_public"
    ELSE IF Contains(title, KW_over_permissive_iam) THEN "iam_permissive"
    ELSE IF Contains(title, KW_cloudtrail)
          /\ (Contains(title, KW_not) \/ Contains(title, KW_disabled))
        THEN "cloudtrail_disabled"
    ELSE IF Contains(title, KW_public_storage) /\ cloud = "Azure"
        THEN "azure_storage"
    ELSE IF Contains(title, KW_https) /\ Contains(title, KW_not_enforced)
        THEN "azure_https"
    ELSE IF Contains(title, KW_public_gcs) THEN "gcs_public"
    ELSE IF Contains(title, KW_versioning) /\ Contains(title, KW_disabled)
        THEN "gcs_versioning"
    ELSE "none"

\* the if/elif chain of the loop body: the key of the branch that is taken,
\* "none" when no condition holds
RemediationBranch(title, cloud, processed_types) ==
    IF Contains(title, KW_public_s3_bucket)
          /\ "s3_public" \notin processed_types
        THEN "s3_public"
    ELSE IF Contains(title, KW_over_permissive_iam)
          /\ "iam_permissive" \notin processed_types
        THEN "iam_permissive"
    ELSE IF Contains(title, KW_cloudtrail)
          /\ (Contains(title, KW_not) \/ Contains(title, KW_disabled))
          /\ "cloudtrail_disabled" \notin processed_types
        THEN "cloudtrail_disabled"
    ELSE IF Contains(title, KW_public_storage) /\ cloud = "Azure"
          /\ "azure_storage" \notin processed_types
        THEN "azure_storage"
    ELSE IF Contains(title, KW_https) /\ Contains(title, KW_not_enforced)
          /\ "azure_https" \notin processed_types
        THEN "azure_https"
    ELSE IF Contains(title, KW_public_gcs)
          /\ "gcs_public" \notin processed_types
        THEN "gcs_public"
    ELSE IF Contains(title, KW_versioning) /\ Contains(title, KW_disabled)
          /\ "gcs_versioning" \notin processed_types
        THEN "gcs_versioning"
    ELSE "none"

\* the title and the cloud each branch writes into its script
RemediationTemplate(key) ==
    CASE key = "s3_public" ->
            [title |-> "Fix Public S3 Bucket Access", cloud |-> "AWS"]
      [] key = "iam_permissive" ->
            [title |-> "Restrict Over-Permissive IAM Role", cloud |-> "AWS"]
      [] key = "cloudtrail_disabled" ->
            [title |-> "Enable CloudTrail Logging", cloud |-> "AWS"]
      [] key = "azure_storage" ->
            [title |-> "Disable Public Access on Azure Storage",
             cloud |-> "Azure"]
      [] key = "azure_https" ->
            [title |-> "Enforce HTTPS on Azure Storage", cloud |-> "Azure"]
      [] key = "gcs_public" ->
            [title |-> "Remove Public Access from GCS Bucket",
             cloud |-> "GCP"]
      [] key = "gcs_versioning" ->
            [title |-> "Enable Versioning on GCS Bucket", cloud |-> "GCP"]

RemediationKeys ==
    {"s3_public", "iam_permissive", "cloudtrail_disabled", "azure_storage",
     "azure_https", "gcs_public", "gcs_versioning"}

\* every branch substituting resource_name
RemediationResource_NameAlways(key, title, resource_name) == resource_name

\* the name each branch substitutes into its scripts (role_name, trail_name,
\* storage_name, bucket_name)
RemediationResource(key, title, resource_name) ==
    CASE key = "s3_public" -> resource_name
      [] key = "iam_permissive" ->
            IF Contains(title, KW_role) THEN resource_name
            ELSE <<"<ROLE_NAME>">>
      [] key = "cloudtrail_disabled" ->
            IF Contains(title, KW_trail) THEN resource_name
            ELSE <<"security", "-", "trail">>
      [] key \in {"azure_storage", "azure_https"} ->
            IF Contains(title, KW_storage) THEN resource_name
            ELSE <<"<STORAGE_ACCOUNT>">>
      [] key \in {"gcs_public", "gcs_versioning"} ->
            IF Contains(title, KW_bucket) THEN resource_name
            ELSE <<"<BUCKET_NAME>">>

\* one iteration of `for finding in findings`; acc holds remediation_scripts
\* and processed_types.  cli_script and terraform are the branch's f-string
\* with the name substituted: the pair of the template and the name.
RemediationLoopBody(acc, finding) ==
    LET title == Lower(Get(finding, "title", <<>>))
        cloud == Get(finding, "cloud", "Unknown")
        resource_name == ResourceName(Get(finding, "title", <<>>))
        key == RemediationBranch(title, cloud, acc.processed_types)
    IN  IF key = "none" THEN acc
        ELSE LET name == RemediationResource(key, title, resource_name)
             IN  [remediation_scripts |->
                      Append(acc.remediation_scripts,
                             [title |-> RemediationTemplate(key).title,
                              cloud |-> RemediationTemplate(key).cloud,
                              resource |-> name,
                              cli_script |-> <<key, name>>,
                              terraform |-> <<key, name>>]),
                  processed_types |-> acc.processed_types \cup {key}]

RECURSIVE RemediationLoop(_, _)
RemediationLoop(acc, findings) ==
    IF findings = <<>> THEN acc
    ELSE RemediationLoop(RemediationLoopBody(acc, Head(findings)),
                         Tail(findings))

generate(findings) ==
    RemediationLoop([remediation_scripts |-> <<>>, processed_types |-> {}],
                    findings).remediation_scripts

\* ------------------------------------------------------------------------
\* RiskEngine.analyze (core/risk_engine.py)
\* ------------------------------------------------------------------------

\* the penalties with the sign of the Critical one inverted
FindingPenalty_SignSlip(finding) ==
    LET severity == Get(finding, "severity", "Info")
    IN  IF severity = "Critical" THEN -15
        ELSE IF severity = "Warning" THEN 8
        ELSE IF severity = "Info" THEN 3
        ELSE 0

\* the penalties with nothing subtracted for Info
FindingPenalty_InfoFree(finding) ==
    LET severity == Get(finding, "severity", "Info")
    IN  IF severity = "Critical" THEN 15
        ELSE IF severity = "Warning" THEN 8
        ELSE 0

\* lines 28-35
FindingPenalty(finding) ==
    LET severity == Get(finding, "severity", "Info")
    IN  IF severity = "Critical" THEN 15
        ELSE IF severity = "Warning" THEN 8
        ELSE IF severity = "Info" THEN 3
        ELSE 0

\* the penalties with Warning counted as Medium
AttackPenalty_WarningCounts(attack) ==
    LET severity == Get(attack, "severity", "Medium")
    IN  IF severity = "Critical" THEN 20
        ELSE IF severity = "High" THEN 15
        ELSE IF severity \in {"Medium", "Warning"} THEN 10
        ELSE 0

\* lines 38-45
AttackPenalty(attack) ==
    LET severity == Get(attack, "severity", "Medium")
    IN  IF severity = "Critical" THEN 20
        ELSE IF severity = "High" THEN 15
        ELSE IF severity = "Medium" THEN 10
        ELSE 0

\* lines 59-62
PersistencePenalty(attack) ==
    LET title == Lower(Get(attack, "title", <<>>))
    IN  IF Contains(title, KW_persistence)
           \/ Contains(title, KW_privilege_escalation)
        THEN 10 ELSE 0

\* the amount the loops subtract from score in all
RECURSIVE Sum(_)
Sum(ns) == IF ns = <<>> THEN 0 ELSE Head(ns) + Sum(Tail(ns))

\* lines 48-52
affected_clouds(findings) ==
    { Get(findings[i], "cloud", "") : i \in DOMAIN findings } \ {"", "System"}

\* the penalty with System counted as a cloud
MultiCloudPenalty_CountsSystem(findings) ==
    IF Cardinality({ Get(findings[i], "cloud", "") : i \in DOMAIN findings }
                      \ {""}) > 1
        THEN 10 ELSE 0

\* lines 54-55
MultiCloudPenalty(findings) ==
    IF Cardinality(affected_clouds(findings)) > 1 THEN 10 ELSE 0

\* the value of score before line 66
RawScore(fs, as) ==
    100 - Sum([i \in DOMAIN fs |-> FindingPenalty(fs[i])])
        - Sum([i \in DOMAIN as |-> AttackPenalty(as[i])])
        - MultiCloudPenalty(fs)
        - Sum([i \in DOMAIN as |-> PersistencePenalty(as[i])])

Min(a, b) == IF a < b THEN a ELSE b

Max(a, b) == IF a > b THEN a ELSE b

\* the clamp without max(0, ...)
Clamp_NoFloor(score) == Min(100, score)

\* line 66
Clamp(score) == Max(0, Min(100, score))

security_score(findings, attacks) == Clamp(RawScore(findings, attacks))

\* the bands with > in place of >=
risk_level_Strict(score) ==
    IF score > 80 THEN "Low"
    ELSE IF score > 60 THEN "Medium"
    ELSE IF score > 40 THEN "High"
    ELSE "Critical"

\* lines 69-76
risk_level(score) ==
    IF score >= 80 THEN "Low"
    ELSE IF score >= 60 THEN "Medium"
    ELSE IF score >= 40 THEN "High"
    ELSE "Critical"

\* line 79 and the key function of line 82
severity_order(attack) ==
    LET severity == Get(attack, "severity", "Medium")
    IN  CASE severity = "Critical" -> 0
          [] severity = "High" -> 1
          [] severity = "Medium" -> 2
          [] severity = "Warning" -> 3
          [] severity = "Info" -> 4
          [] OTHER -> 5

\* sorted(attacks, key=...) : Python's sort is stable, so x goes behind every
\* element whose key is not larger
RECURSIVE InsertSorted(_, _)
InsertSorted(sorted, x) ==
    IF sorted = <<>> THEN <<x>>
    ELSE IF severity_order(Head(sorted)) <= severity_order(x)
        THEN <<Head(sorted)>> \o InsertSorted(Tail(sorted), x)
    ELSE <<x>> \o sorted

RECURSIVE sorted_attacks(_)
sorted_attacks(attacks) ==
    IF attacks = <<>> THEN <<>>
    ELSE InsertSorted(sorted_attacks(SubSeq(attacks, 1, Len(attacks) - 1)),
                      attacks[Len(attacks)])

\* the titles of the first three attacks as given
top_risks_Unsorted(attacks) ==
    [i \in 1..Min(3, Len(attacks)) |-> attacks[i].title]

\* line 84
top_risks(attacks) ==
    LET s == sorted_attacks(attacks)
    IN  [i \in 1..Min(3, Len(s)) |-> s[i].title]

\* ', '.join(xs)
RECURSIVE Join(_)
Join(xs) ==
    IF xs = <<>> THEN <<>>
    ELSE IF Len(xs) = 1 THEN xs
    ELSE <<Head(xs), ", ">> \o Join(Tail(xs))

\* the orders in which iterating a Python set of strings can yield its
\* elements: the order follows the strings' hashes, which are salted per
\* interpreter process
IterationOrders(S) ==
    { o \in [1..Cardinality(S) -> S] :
        \A i, j \in 1..Cardinality(S) : i # j => o[i] # o[j] }

\* _generate_summary: the text is the template of the band (with the
\* counts the template prints, -1 for a count it does not print) followed
\* by the multi-cloud sentence; clouds_iter is the order in which
\* affected_clouds is iterated by join
generate_summary(score, level, findings_count, attacks_count, clouds_iter) ==
    LET body ==
            IF level = "Critical" THEN
                [head |-> "CRITICAL SECURITY POSTURE",
                 findings_count |-> findings_count,
                 attacks_count |-> attacks_count]
            ELSE IF level = "High" THEN
                [head |-> "HIGH RISK DETECTED",
                 findings_count |-> findings_count,
                 attacks_count |-> attacks_count]
            ELSE IF level = "Medium" THEN
                [head |-> "MODERATE SECURITY CONCERNS",
                 findings_count |-> findings_count,
                 attacks_count |-> attacks_count]
            ELSE IF findings_count = 0 THEN
                [head |-> "EXCELLENT SECURITY POSTURE",
                 findings_count |-> -1,
                 attacks_count |-> -1]
            ELSE
                [head |-> "GOOD SECURITY POSTURE",
                 findings_count |-> findings_count,
                 attacks_count |-> -1]
    IN  [body |-> body,
         multi_cloud |-> IF Len(clouds_iter) > 1 THEN Join(clouds_iter)
                         ELSE <<>>]

\* analyze, for the iteration order clouds_iter of affected_clouds
analyze(findings, attacks, clouds_iter) ==
    LET score == security_score(findings, attacks)
        level == risk_level(score)
    IN  [security_score |-> score,
         risk_level |-> level,
         top_risks |-> top_risks(attacks),
         summary |-> generate_summary(score, level, Len(findings),
                                      Len(attacks), clouds_iter)]

\* ------------------------------------------------------------------------
\* Inputs
\* ------------------------------------------------------------------------

\* a finding dict; description and remediation are read by no engine and
\* are left out
Finding(title, severity, cloud) ==
    [title |-> title, severity |-> severity, cloud |-> cloud]

\* the spec's scenario 2 title, Public S3 Bucket: 'acme-data'
T_PublicS3Acme ==
    <<"Public", " ", "S3", " ", "Bucket", ":", " ", SQ, "acme", "-", "data", SQ>>

T_PublicS3Logs == <<"Public", " ", "S3", " ", "Bucket", ":", " ", "logs">>

\* a bucket named versioning-disabled
T_PublicS3Versioning ==
    <<"Public", " ", "S3", " ", "Bucket", ":", " ",
      "versioning", "-", "disabled">>

T_IamRole ==
    <<"Over", "-", "Permissive", " ", "IAM", " ", "Role", ":", " ", "admin">>

T_CloudTrailNotEnabled == <<"CloudTrail", " ", "Not", " ", "Enabled">>

T_PublicStorage ==
    <<"Public", " ", "Storage", " ", "Account", ":", " ", "store1">>

T_HttpsNotEnforced ==
    <<"HTTPS", " ", "Not", " ", "Enforced", ":", " ", "store1">>

T_PublicGcs == <<"Public", " ", "GCS", " ", "Bucket", ":", " ", "media">>

T_VersioningDisabled == <<"Versioning", " ", "Disabled", ":", " ", "media">>

\* a title that satisfies both the https rule and the public gcs rule
T_HttpsPublicGcs ==
    <<"HTTPS", " ", "Not", " ", "Enforced", ":", " ",
      "Public", " ", "GCS", " ", "Bucket">>

\* titles with quoted names
T_IamQuoted ==
    <<"Over", "-", "Permissive", " ", "IAM", ":", " ", SQ, "admin", SQ>>

T_IamRoleQuoted ==
    <<"Over", "-", "Permissive", " ", "IAM", " ", "Role", ":", " ",
      DQ, "admin", DQ>>

T_VersioningQuoted ==
    <<"Versioning", " ", "Disabled", ":", " ", SQ, "media", SQ>>

T_PublicGcsTwoQuoted ==
    <<"Public", " ", "GCS", " ", "Bucket", ":", " ", DQ, "media", DQ, " ",
      SQ, "old", "-", "media", SQ>>

T_AwsAuthFailed == <<"AWS", " ", "Authentication", " ", "Failed">>

T_NoCredentials == <<"No", " ", "Credentials", " ", "Configured">>

T_ScanError(cloud) == <<cloud, " ", "Scan", " ", "Error">>

\* the findings the engines are called with
EngineFindings ==
    { Finding(T_PublicS3Acme, "Critical", "AWS"),
      Finding(T_PublicS3Versioning, "Critical", "AWS"),
      Finding(T_IamRole, "Critical", "AWS"),
      Finding(T_CloudTrailNotEnabled, "Warning", "AWS"),
      Finding(T_PublicStorage, "Critical", "Azure"),
      Finding(T_HttpsNotEnforced, "Warning", "Azure"),
      Finding(T_PublicGcs, "Critical", "GCP"),
      Finding(T_VersioningDisabled, "Warning", "GCP"),
      Finding(T_HttpsPublicGcs, "Warning", "GCP"),
      Finding(T_NoCredentials, "Info", "System"),
      [title |-> T_VersioningDisabled] }

\* findings whose titles hold or lack a quoted name and hold or lack the
\* word their branch looks for
ResourceFindings ==
    { Finding(T_PublicS3Acme, "Critical", "AWS"),
      Finding(T_PublicS3Logs, "Critical", "AWS"),
      Finding(T_IamRole, "Critical", "AWS"),
      Finding(T_IamQuoted, "Critical", "AWS"),
      Finding(T_IamRoleQuoted, "Critical", "AWS"),
      Finding(T_CloudTrailNotEnabled, "Warning", "AWS"),
      Finding(T_PublicStorage, "Critical", "Azure"),
      Finding(T_HttpsNotEnforced, "Warning", "Azure"),
      Finding(T_PublicGcs, "Critical", "GCP"),
      Finding(T_PublicGcsTwoQuoted, "Critical", "GCP"),
      Finding(T_VersioningDisabled, "Warning", "GCP"),
      Finding(T_VersioningQuoted, "Warning", "GCP") }

\* the findings and attacks RiskEngine.analyze is called with directly
RiskFindings ==
    { Finding(T_PublicS3Logs, "Critical", "AWS"),
      Finding(T_HttpsNotEnforced, "Warning", "Azure"),
      Finding(T_NoCredentials, "Info", "System"),
      [title |-> T_VersioningDisabled] }

RiskAttacks ==
    { [title |-> AttackTemplate("s3_exfiltration").title,
       severity |-> "Critical", cloud |-> "AWS"],
      [title |-> AttackTemplate("stealth_persistence").title,
       severity |-> "Critical", cloud |-> "AWS"],
      [title |-> AttackTemplate("iam_escalation").title,
       severity |-> "High", cloud |-> "AWS"],
      [title |-> <<"Lateral", " ", "Movement">>, cloud |-> "Azure"],
      [title |-> AttackTemplate("mitm_attack").title,
       severity |-> "Warning", cloud |-> "Azure"] }

SeqsUpTo(S, n) == UNION { [1..k -> S] : k \in 0..n }

\* what each provider's run_checks can return
AWSResults ==
    { <<>>,
      <<Finding(T_PublicS3Logs, "Critical", "AWS")>>,
      <<Finding(T_PublicS3Logs, "Critical", "AWS"),
        Finding(T_IamRole, "Critical", "AWS"),
        Finding(T_CloudTrailNotEnabled, "Warning", "AWS")>>,
      <<Finding(T_AwsAuthFailed, "Critical", "AWS")>> }

AzureResults ==
    { <<>>,
      <<Finding(T_PublicStorage, "Critical", "Azure")>>,
      <<Finding(T_PublicStorage, "Critical", "Azure"),
        Finding(T_HttpsNotEnforced, "Warning", "Azure")>> }

GCPResults ==
    { <<>>,
      <<Finding(T_VersioningDisabled, "Warning", "GCP")>>,
      <<Finding(T_PublicGcs, "Critical", "GCP"),
        Finding(T_VersioningDisabled, "Warning", "GCP")>> }

\* the credential fields run_cloud_scan tests for truthiness
CredentialFields ==
    [aws |-> {"access_key", "secret_key"},
     azure |-> {"tenant_id", "client_id", "client_secret"},
     gcp |-> {"project_id", "service_account_path"}]

\* ------------------------------------------------------------------------
\* State
\* ------------------------------------------------------------------------

VARIABLES
    pc,                   \* position of the caller
    credentials,          \* run_cloud_scan: per provider, the fields that hold a non-empty value
    all_findings,         \* run_cloud_scan: all_findings
    scanned_clouds,       \* run_cloud_scan: scanned_clouds
    result,               \* run_cloud_scan: the returned dict, <<>> before the return
    provider_findings,    \* run_cloud_scan: aws_findings, azure_findings, gcp_findings; <<>> while unassigned
    invoked,              \* providers whose run_checks has been called
    findings,             \* argument of a direct engine call
    attacks,              \* argument of a direct RiskEngine.analyze call
    attack_paths,         \* value returned by generate_attack_paths, <<>> before
    risk_analysis,        \* value returned by analyze, <<>> before
    remediation_scripts,  \* value returned by generate, <<>> before
    calls,                \* the two most recent direct analyze calls: arguments and result
    scan_btn,             \* per application: ScanPage.scan_btn.isEnabled()
    running,              \* per application: ScanWorker threads inside run()
    finished_signal,      \* per application: emitted finished_signal results not yet handled
    gui,                  \* per application: the GUI thread inside on_scan_complete
    pages,                \* per application: what the dashboard and report pages were given
    ledger_file,          \* scan_history.json
    clock,                \* datetime.now()
    scan_budget,          \* scans that may still be started
    faults_left           \* store faults that may still happen

app_vars ==
    <<scan_btn, running, finished_signal, gui, pages, ledger_file, clock,
      scan_budget, faults_left>>

vars ==
    <<pc, credentials, all_findings, scanned_clouds, result,
      provider_findings, invoked, findings, attacks, attack_paths,
      risk_analysis, remediation_scripts, calls, app_vars>>

scan_vars ==
    <<credentials, all_findings, scanned_clouds, result, provider_findings,
      invoked>>

\* the application instances that share one working directory
Apps == {"app1", "app2"}

\* no application window is open
AppIdle ==
    /\ scan_btn = [a \in Apps |-> TRUE]
    /\ running = [a \in Apps |-> 0]
    /\ finished_signal = [a \in Apps |-> <<>>]
    /\ gui = [a \in Apps |-> [pc |-> "idle", result |-> <<>>, history |-> <<>>,
                               error |-> FALSE, load_error |-> FALSE]]
    /\ pages = [a \in Apps |-> [dashboard |-> <<>>, report |-> <<>>,
                                stats |-> <<>>]]
    /\ ledger_file = [readable |-> TRUE, entries |-> <<>>]
    /\ clock = 0
    /\ scan_budget = 0
    /\ faults_left = 0

\* ------------------------------------------------------------------------
\* run_cloud_scan (core/scanner.py)
\* ------------------------------------------------------------------------

\* the tests with `or` in place of `and`
Configured_AnyField(provider) == credentials[provider] # {}

\* the tests of lines 40, 63 and 86
Configured(provider) == credentials[provider] = CredentialFields[provider]

\* the dict returned at lines 109-125
NoCredentialsResult ==
    [findings |-> <<Finding(T_NoCredentials, "Info", "System")>>,
     attacks |-> <<>>,
     risk |-> [security_score |-> 100,
               risk_level |-> "Low",
               top_risks |-> <<>>,
               summary |-> [body |-> [head |-> "No cloud credentials configured",
                                      findings_count |-> -1,
                                      attacks_count |-> -1],
                            multi_cloud |-> <<>>]],
     remediation |-> <<>>]

\* the finding appended by the except clause of a provider block
ScanErrorFinding(cloud) == Finding(T_ScanError(cloud), "Warning", cloud)

\* the except clause leaving the provider blocks that follow unexecuted
ProviderBlock_RaiseEndsScan(provider, cloud, results, next) ==
    /\ IF Configured(provider)
       THEN \/ \E fs \in results :
                 /\ provider_findings' = [provider_findings EXCEPT ![provider] = <<fs>>]
                 /\ all_findings' = all_findings \o fs
                 /\ scanned_clouds' = Append(scanned_clouds, cloud)
                 /\ invoked' = invoked \cup {provider}
                 /\ pc' = next
            \/ /\ all_findings' = Append(all_findings, ScanErrorFinding(cloud))
               /\ invoked' = invoked \cup {provider}
               /\ pc' = "scan_check"
               /\ UNCHANGED <<scanned_clouds, provider_findings>>
            \/ /\ invoked' = invoked \cup {provider}
               /\ pc' = "scan_blocked"
               /\ UNCHANGED <<all_findings, scanned_clouds, provider_findings>>
       ELSE /\ pc' = next
            /\ UNCHANGED <<all_findings, scanned_clouds, provider_findings,
                           invoked>>
    /\ UNCHANGED <<app_vars, credentials, result, findings, attacks,
                   attack_paths, risk_analysis, remediation_scripts, calls>>

\* the provider's findings put in front of all_findings
ProviderBlock_Prepend(provider, cloud, results, next) ==
    /\ IF Configured(provider)
       THEN \/ \E fs \in results :
                 /\ provider_findings' = [provider_findings EXCEPT ![provider] = <<fs>>]
                 /\ all_findings' = fs \o all_findings
                 /\ scanned_clouds' = Append(scanned_clouds, cloud)
                 /\ invoked' = invoked \cup {provider}
                 /\ pc' = next
            \/ /\ all_findings' = Append(all_findings, ScanErrorFinding(cloud))
               /\ invoked' = invoked \cup {provider}
               /\ pc' = next
               /\ UNCHANGED <<scanned_clouds, provider_findings>>
            \/ /\ invoked' = invoked \cup {provider}
               /\ pc' = "scan_blocked"
               /\ UNCHANGED <<all_findings, scanned_clouds, provider_findings>>
       ELSE /\ pc' = next
            /\ UNCHANGED <<all_findings, scanned_clouds, provider_findings,
                           invoked>>
    /\ UNCHANGED <<app_vars, credentials, result, findings, attacks,
                   attack_paths, risk_analysis, remediation_scripts, calls>>

\* one provider block: skipped when the credentials are incomplete, else
\* run_checks is called with no timeout around it: it returns its findings
\* (extend), raises (the except clause appends one finding) or never
\* returns (run_cloud_scan stays inside the call)
ProviderBlock(provider, cloud, results, next) ==
    /\ IF Configured(provider)
       THEN \/ \E fs \in results :
                 /\ provider_findings' = [provider_findings EXCEPT ![provider] = <<fs>>]
                 /\ all_findings' = all_findings \o fs
                 /\ scanned_clouds' = Append(scanned_clouds, cloud)
                 /\ invoked' = invoked \cup {provider}
                 /\ pc' = next
            \/ /\ all_findings' = Append(all_findings, ScanErrorFinding(cloud))
               /\ invoked' = invoked \cup {provider}
               /\ pc' = next
               /\ UNCHANGED <<scanned_clouds, provider_findings>>
            \/ /\ invoked' = invoked \cup {provider}
               /\ pc' = "scan_blocked"
               /\ UNCHANGED <<all_findings, scanned_clouds, provider_findings>>
       ELSE /\ pc' = next
            /\ UNCHANGED <<all_findings, scanned_clouds, provider_findings,
                           invoked>>
    /\ UNCHANGED <<app_vars, credentials, result, findings, attacks,
                   attack_paths, risk_analysis, remediation_scripts, calls>>

\* lines 39-60
ScanAWS ==
    /\ pc = "scan_aws"
    /\ ProviderBlock("aws", "AWS", AWSResults, "scan_azure")

\* lines 62-83
ScanAzure ==
    /\ pc = "scan_azure"
    /\ ProviderBlock("azure", "Azure", AzureResults, "scan_gcp")

\* lines 85-105
ScanGCP ==
    /\ pc = "scan_gcp"
    /\ ProviderBlock("gcp", "GCP", GCPResults, "scan_check")

\* lines 107-125
ReturnNoCredentials ==
    /\ pc = "scan_check"
    /\ scanned_clouds = <<>>
    /\ result' = <<NoCredentialsResult>>
    /\ pc' = "scan_returned"
    /\ UNCHANGED <<app_vars, provider_findings, invoked, credentials,
                   all_findings, scanned_clouds, findings,
                   attacks, attack_paths, risk_analysis,
                   remediation_scripts, calls>>

\* lines 129-130
RunAttackEngine ==
    /\ pc = "scan_check"
    /\ scanned_clouds # <<>>
    /\ attack_paths' = <<generate_attack_paths(all_findings)>>
    /\ pc' = "scan_risk"
    /\ UNCHANGED <<app_vars, provider_findings, invoked, credentials,
                   all_findings, scanned_clouds, result,
                   findings, attacks, risk_analysis, remediation_scripts,
                   calls>>

\* lines 132-133
RunRiskEngine ==
    /\ pc = "scan_risk"
    /\ \E o \in IterationOrders(affected_clouds(all_findings)) :
           risk_analysis' = <<analyze(all_findings, attack_paths[1], o)>>
    /\ pc' = "scan_remediation"
    /\ UNCHANGED <<app_vars, provider_findings, invoked, credentials,
                   all_findings, scanned_clouds, result,
                   findings, attacks, attack_paths, remediation_scripts,
                   calls>>

\* lines 135-136
RunRemediationEngine ==
    /\ pc = "scan_remediation"
    /\ remediation_scripts' = <<generate(all_findings)>>
    /\ pc' = "scan_return"
    /\ UNCHANGED <<app_vars, provider_findings, invoked, credentials,
                   all_findings, scanned_clouds, result,
                   findings, attacks, attack_paths, risk_analysis, calls>>

\* lines 138-143
ReturnScanResult ==
    /\ pc = "scan_return"
    /\ result' = <<[findings |-> all_findings,
                    attacks |-> attack_paths[1],
                    risk |-> risk_analysis[1],
                    remediation |-> remediation_scripts[1]]>>
    /\ pc' = "scan_returned"
    /\ UNCHANGED <<app_vars, provider_findings, invoked, credentials,
                   all_findings, scanned_clouds, findings,
                   attacks, attack_paths, risk_analysis,
                   remediation_scripts, calls>>

\* run_cloud_scan is entered with any credentials dict
Init ==
    /\ pc = "scan_aws"
    /\ credentials \in [aws : SUBSET CredentialFields.aws,
                        azure : SUBSET CredentialFields.azure,
                        gcp : SUBSET CredentialFields.gcp]
    /\ all_findings = <<>>
    /\ scanned_clouds = <<>>
    /\ result = <<>>
    /\ findings = <<>>
    /\ attacks = <<>>
    /\ attack_paths = <<>>
    /\ risk_analysis = <<>>
    /\ remediation_scripts = <<>>
    /\ calls = <<>>
    /\ provider_findings = [aws |-> <<>>, azure |-> <<>>, gcp |-> <<>>]
    /\ invoked = {}
    /\ AppIdle

Next ==
    \/ ScanAWS
    \/ ScanAzure
    \/ ScanGCP
    \/ ReturnNoCredentials
    \/ RunAttackEngine
    \/ RunRiskEngine
    \/ RunRemediationEngine
    \/ ReturnScanResult

Spec == Init /\ [][Next]_vars

\* run_cloud_scan runs on a thread that keeps executing: a step that can
\* be taken is taken
SpecScanning == Init /\ [][Next]_vars /\ WF_vars(Next)

\* ------------------------------------------------------------------------
\* The three engines called one after the other on a finding list
\* ------------------------------------------------------------------------

\* AttackEngine.generate_attack_paths(findings)
CallGenerateAttackPaths ==
    /\ pc = "call_attack"
    /\ attack_paths' = <<generate_attack_paths(findings)>>
    /\ pc' = "call_analyze"
    /\ UNCHANGED <<app_vars, scan_vars, findings, attacks, risk_analysis,
                   remediation_scripts, calls>>

\* RiskEngine.analyze(findings, attack_paths)
CallAnalyze ==
    /\ pc = "call_analyze"
    /\ \E o \in IterationOrders(affected_clouds(findings)) :
           risk_analysis' = <<analyze(findings, attack_paths[1], o)>>
    /\ pc' = "call_generate"
    /\ UNCHANGED <<app_vars, scan_vars, findings, attacks, attack_paths,
                   remediation_scripts, calls>>

\* RemediationEngine.generate(findings)
CallGenerate ==
    /\ pc = "call_generate"
    /\ remediation_scripts' = <<generate(findings)>>
    /\ pc' = "call_done"
    /\ UNCHANGED <<app_vars, scan_vars, findings, attacks, attack_paths,
                   risk_analysis, calls>>

InitEngines ==
    /\ pc = "call_attack"
    /\ findings \in SeqsUpTo(EngineFindings, MaxFindings)
    /\ credentials = [aws |-> {}, azure |-> {}, gcp |-> {}]
    /\ all_findings = <<>>
    /\ scanned_clouds = <<>>
    /\ result = <<>>
    /\ attacks = <<>>
    /\ attack_paths = <<>>
    /\ risk_analysis = <<>>
    /\ remediation_scripts = <<>>
    /\ calls = <<>>
    /\ provider_findings = [aws |-> <<>>, azure |-> <<>>, gcp |-> <<>>]
    /\ invoked = {}
    /\ AppIdle

NextEngines ==
    \/ CallGenerateAttackPaths
    \/ CallAnalyze
    \/ CallGenerate

SpecEngines == InitEngines /\ [][NextEngines]_vars

\* the engines called on findings that differ in how their titles name
\* the resource
InitResources ==
    /\ pc = "call_attack"
    /\ findings \in SeqsUpTo(ResourceFindings, MaxResourceFindings)
    /\ credentials = [aws |-> {}, azure |-> {}, gcp |-> {}]
    /\ all_findings = <<>>
    /\ scanned_clouds = <<>>
    /\ result = <<>>
    /\ attacks = <<>>
    /\ attack_paths = <<>>
    /\ risk_analysis = <<>>
    /\ remediation_scripts = <<>>
    /\ calls = <<>>
    /\ provider_findings = [aws |-> <<>>, azure |-> <<>>, gcp |-> <<>>]
    /\ invoked = {}
    /\ AppIdle

SpecResources == InitResources /\ [][NextEngines]_vars

\* ------------------------------------------------------------------------
\* RiskEngine.analyze called on any findings and attacks
\* ------------------------------------------------------------------------

\* analyze(findings, attacks); the call and its result are recorded, the
\* record of the call before it is kept
CallAnalyzeDirect ==
    /\ pc = "risk"
    /\ \E o \in IterationOrders(affected_clouds(findings)) :
          LET r == analyze(findings, attacks, o)
              c == [findings |-> findings, attacks |-> attacks, risk |-> r]
          IN  /\ risk_analysis' = <<r>>
              /\ calls' = IF calls = <<>> THEN <<c>>
                          ELSE <<calls[Len(calls)], c>>
    /\ UNCHANGED <<app_vars, pc, scan_vars, findings, attacks, attack_paths,
                   remediation_scripts>>

\* the caller extends the finding list by one Critical finding (the lists
\* grow to one finding more than the lists the calls start from)
AddCriticalFinding ==
    /\ pc = "risk"
    /\ Len(findings) <= MaxRiskFindings
    /\ \E f \in RiskFindings :
          /\ Get(f, "severity", "Info") = "Critical"
          /\ findings' = Append(findings, f)
    /\ UNCHANGED <<app_vars, pc, scan_vars, attacks, attack_paths, risk_analysis,
                   remediation_scripts, calls>>

InitRisk ==
    /\ pc = "risk"
    /\ findings \in SeqsUpTo(RiskFindings, MaxRiskFindings)
    /\ attacks \in SeqsUpTo(RiskAttacks, MaxRiskAttacks)
    /\ credentials = [aws |-> {}, azure |-> {}, gcp |-> {}]
    /\ all_findings = <<>>
    /\ scanned_clouds = <<>>
    /\ result = <<>>
    /\ attack_paths = <<>>
    /\ risk_analysis = <<>>
    /\ remediation_scripts = <<>>
    /\ calls = <<>>
    /\ provider_findings = [aws |-> <<>>, azure |-> <<>>, gcp |-> <<>>]
    /\ invoked = {}
    /\ AppIdle

NextRisk ==
    \/ CallAnalyzeDirect
    \/ AddCriticalFinding

SpecRisk == InitRisk /\ [][NextRisk]_vars

\* analyze called with no findings and attack lists long enough for the
\* cut to three titles to leave attacks out
InitTopRisks ==
    /\ pc = "risk"
    /\ findings = <<>>
    /\ attacks \in SeqsUpTo(RiskAttacks, MaxTopAttacks)
    /\ credentials = [aws |-> {}, azure |-> {}, gcp |-> {}]
    /\ all_findings = <<>>
    /\ scanned_clouds = <<>>
    /\ result = <<>>
    /\ attack_paths = <<>>
    /\ risk_analysis = <<>>
    /\ remediation_scripts = <<>>
    /\ calls = <<>>
    /\ provider_findings = [aws |-> <<>>, azure |-> <<>>, gcp |-> <<>>]
    /\ invoked = {}
    /\ AppIdle

NextTopRisks == CallAnalyzeDirect

SpecTopRisks == InitTopRisks /\ [][NextTopRisks]_vars

\* ------------------------------------------------------------------------
\* The application: scan page, worker thread, completion handler and the
\* history ledger (ui/scan_page.py, ui/main_window.py, core/scan_history.py)
\* ------------------------------------------------------------------------

\* `if len(history) > 50: history = history[-50:]`
HistoryCap == 50

\* the dict run_cloud_scan returns for merged findings fs
ScanResultOf(fs, clouds_iter) ==
    [findings |-> fs,
     attacks |-> generate_attack_paths(fs),
     risk |-> analyze(fs, generate_attack_paths(fs), clouds_iter),
     remediation |-> generate(fs)]

\* what run_cloud_scan(self.credentials) can return to the worker: the
\* no-credentials result, or the engines' output over the AWS findings
ScanOutcomes ==
    IF \A p \in DOMAIN CredentialFields : ~Configured(p)
        THEN {NoCredentialsResult}
    ELSE {NoCredentialsResult}
           \cup { ScanResultOf(fs, o) :
                    fs \in {r \in AWSResults : Len(r) = 1},
                    o \in IterationOrders({"AWS"}) }

\* the entry save_scan builds from a result at time now
HistoryEntry(scan_result, now) ==
    [timestamp |-> now,
     security_score |-> Get(Get(scan_result, "risk", <<>>), "security_score", 0),
     risk_level |-> Get(Get(scan_result, "risk", <<>>), "risk_level", "Unknown"),
     findings_count |-> Len(Get(scan_result, "findings", <<>>)),
     attacks_count |-> Len(Get(scan_result, "attacks", <<>>))]

\* load_history: the list in the file, the empty list when the file is
\* missing or cannot be parsed
load_history == IF ledger_file.readable THEN ledger_file.entries ELSE <<>>

\* the cut keeping the oldest entries
Truncate_KeepOldest(history) ==
    IF Len(history) > HistoryCap
        THEN SubSeq(history, 1, HistoryCap)
    ELSE history

\* lines 41-42
Truncate(history) ==
    IF Len(history) > HistoryCap
        THEN SubSeq(history, Len(history) - HistoryCap + 1, Len(history))
    ELSE history

\* the statistics of the newest entry alone
get_stats_LastEntryOnly ==
    LET history == load_history
    IN  IF history = <<>>
            THEN [total_scans |-> 0, last_scan |-> <<>>, avg_score |-> 0]
        ELSE [total_scans |-> Len(history),
              last_scan |-> <<history[Len(history)].timestamp>>,
              avg_score |->
                  Get(history[Len(history)], "security_score", 0)]

\* get_stats: last_scan is <<>> for "Never", else the last entry's time
get_stats ==
    LET history == load_history
    IN  IF history = <<>>
            THEN [total_scans |-> 0, last_scan |-> <<>>, avg_score |-> 0]
        ELSE [total_scans |-> Len(history),
              last_scan |-> <<history[Len(history)].timestamp>>,
              avg_score |->
                  Sum([i \in DOMAIN history |->
                          Get(history[i], "security_score", 0)])
                    \div Len(history)]

\* start_scan without the setEnabled(False)
StartScan_ButtonStaysEnabled(a) ==
    /\ scan_btn[a]
    /\ gui[a].pc = "idle"
    /\ scan_budget > 0
    /\ running' = [running EXCEPT ![a] = @ + 1]
    /\ scan_budget' = scan_budget - 1
    /\ UNCHANGED <<pc, scan_vars, findings, attacks, attack_paths,
                   risk_analysis, remediation_scripts, calls, scan_btn,
                   finished_signal, gui, pages, ledger_file, clock,
                   faults_left>>

\* ScanPage.start_scan, the slot of scan_btn.clicked: a click reaches it
\* only while the button is enabled and the GUI thread is in its event loop
StartScan(a) ==
    /\ scan_btn[a]
    /\ gui[a].pc = "idle"
    /\ scan_budget > 0
    /\ scan_btn' = [scan_btn EXCEPT ![a] = FALSE]
    /\ running' = [running EXCEPT ![a] = @ + 1]
    /\ scan_budget' = scan_budget - 1
    /\ UNCHANGED <<pc, scan_vars, findings, attacks, attack_paths,
                   risk_analysis, remediation_scripts, calls,
                   finished_signal, gui, pages, ledger_file, clock,
                   faults_left>>

\* ScanWorker.run: run_cloud_scan, then finished_signal.emit(result)
WorkerRun(a) ==
    /\ running[a] > 0
    /\ \E r \in ScanOutcomes :
          finished_signal' = [finished_signal EXCEPT ![a] = Append(@, r)]
    /\ running' = [running EXCEPT ![a] = @ - 1]
    /\ UNCHANGED <<pc, scan_vars, findings, attacks, attack_paths,
                   risk_analysis, remediation_scripts, calls, scan_btn, gui,
                   pages, ledger_file, clock, scan_budget, faults_left>>

\* ScanPage.on_scan_complete run by the GUI thread for a queued
\* finished_signal: the button is enabled again and scan_completed.emit
\* enters MainWindow.on_scan_complete, which calls save_scan
PageOnScanComplete(a) ==
    /\ finished_signal[a] # <<>>
    /\ gui[a].pc = "idle"
    /\ scan_btn' = [scan_btn EXCEPT ![a] = TRUE]
    /\ gui' = [gui EXCEPT ![a] = [pc |-> "save_load",
                                  result |-> <<Head(finished_signal[a])>>,
                                  history |-> <<>>,
                                  error |-> FALSE,
                                  load_error |-> FALSE]]
    /\ finished_signal' = [finished_signal EXCEPT ![a] = Tail(@)]
    /\ UNCHANGED <<pc, scan_vars, findings, attacks, attack_paths,
                   risk_analysis, remediation_scripts, calls, running, pages,
                   ledger_file, clock, scan_budget, faults_left>>

\* save_scan up to the write: the ledger is read, the entry is built,
\* appended, and the list cut to the cap
SaveLoad(a) ==
    /\ gui[a].pc = "save_load"
    /\ clock' = clock + 1
    /\ gui' = [gui EXCEPT
                 ![a].history =
                     Truncate(Append(load_history,
                                     HistoryEntry(gui[a].result[1], clock'))),
                 ![a].load_error = ~ledger_file.readable,
                 ![a].pc = "save_write"]
    /\ UNCHANGED <<pc, scan_vars, findings, attacks, attack_paths,
                   risk_analysis, remediation_scripts, calls, scan_btn,
                   running, finished_signal, pages, ledger_file,
                   scan_budget, faults_left>>

\* a failed read after which the entries of the file are still used
SaveLoadFails_KeepsEntries(a) ==
    /\ gui[a].pc = "save_load"
    /\ faults_left > 0
    /\ faults_left' = faults_left - 1
    /\ clock' = clock + 1
    /\ gui' = [gui EXCEPT
                 ![a].history =
                     Truncate(Append(ledger_file.entries,
                                     HistoryEntry(gui[a].result[1], clock'))),
                 ![a].load_error = TRUE,
                 ![a].pc = "save_write"]
    /\ UNCHANGED <<pc, scan_vars, findings, attacks, attack_paths,
                   risk_analysis, remediation_scripts, calls, scan_btn,
                   running, finished_signal, pages, ledger_file,
                   scan_budget>>

\* the same with a read that fails: load_history logs and returns []
SaveLoadFails(a) ==
    /\ gui[a].pc = "save_load"
    /\ faults_left > 0
    /\ faults_left' = faults_left - 1
    /\ clock' = clock + 1
    /\ gui' = [gui EXCEPT
                 ![a].history =
                     Truncate(<<HistoryEntry(gui[a].result[1], clock')>>),
                 ![a].load_error = TRUE,
                 ![a].pc = "save_write"]
    /\ UNCHANGED <<pc, scan_vars, findings, attacks, attack_paths,
                   risk_analysis, remediation_scripts, calls, scan_btn,
                   running, finished_signal, pages, ledger_file,
                   scan_budget>>

\* the write of save_scan
SaveWrite(a) ==
    /\ gui[a].pc = "save_write"
    /\ ledger_file' = [readable |-> TRUE, entries |-> gui[a].history]
    /\ gui' = [gui EXCEPT ![a].pc = "update_pages"]
    /\ UNCHANGED <<pc, scan_vars, findings, attacks, attack_paths,
                   risk_analysis, remediation_scripts, calls, scan_btn,
                   running, finished_signal, pages, clock, scan_budget,
                   faults_left>>

\* the write fails and the exception leaves save_scan
SaveWriteFails_Propagates(a) ==
    /\ gui[a].pc = "save_write"
    /\ faults_left > 0
    /\ faults_left' = faults_left - 1
    /\ \/ UNCHANGED ledger_file
       \/ ledger_file' = [readable |-> FALSE, entries |-> <<>>]
    /\ gui' = [gui EXCEPT ![a].pc = "idle", ![a].error = TRUE]
    /\ UNCHANGED <<pc, scan_vars, findings, attacks, attack_paths,
                   risk_analysis, remediation_scripts, calls, scan_btn,
                   running, finished_signal, pages, clock, scan_budget>>

\* the write fails: open raises and the file is as before, or json.dump
\* raises and leaves a file that cannot be parsed; the except clause logs
\* the error and save_scan returns
SaveWriteFails(a) ==
    /\ gui[a].pc = "save_write"
    /\ faults_left > 0
    /\ faults_left' = faults_left - 1
    /\ \/ UNCHANGED ledger_file
       \/ ledger_file' = [readable |-> FALSE, entries |-> <<>>]
    /\ gui' = [gui EXCEPT ![a].pc = "update_pages", ![a].error = TRUE]
    /\ UNCHANGED <<pc, scan_vars, findings, attacks, attack_paths,
                   risk_analysis, remediation_scripts, calls, scan_btn,
                   running, finished_signal, pages, clock, scan_budget>>

\* the rest of MainWindow.on_scan_complete: the dashboard and the report
\* page are given the result, and the dashboard shows get_stats()
UpdatePages(a) ==
    /\ gui[a].pc = "update_pages"
    /\ pages' = [pages EXCEPT ![a] = [dashboard |-> gui[a].result,
                                      report |-> gui[a].result,
                                      stats |-> <<get_stats>>]]
    /\ gui' = [gui EXCEPT ![a].pc = "idle", ![a].history = <<>>]
    /\ UNCHANGED <<pc, scan_vars, findings, attacks, attack_paths,
                   risk_analysis, remediation_scripts, calls, scan_btn,
                   running, finished_signal, ledger_file, clock,
                   scan_budget, faults_left>>

\* the fields an application window starts with
AppStart ==
    /\ pc = "app"
    /\ all_findings = <<>>
    /\ scanned_clouds = <<>>
    /\ result = <<>>
    /\ provider_findings = [aws |-> <<>>, azure |-> <<>>, gcp |-> <<>>]
    /\ invoked = {}
    /\ findings = <<>>
    /\ attacks = <<>>
    /\ attack_paths = <<>>
    /\ risk_analysis = <<>>
    /\ remediation_scripts = <<>>
    /\ calls = <<>>
    /\ scan_btn = [a \in Apps |-> TRUE]
    /\ running = [a \in Apps |-> 0]
    /\ finished_signal = [a \in Apps |-> <<>>]
    /\ gui = [a \in Apps |-> [pc |-> "idle", result |-> <<>>, history |-> <<>>,
                               error |-> FALSE, load_error |-> FALSE]]
    /\ pages = [a \in Apps |-> [dashboard |-> <<>>, report |-> <<>>,
                                stats |-> <<>>]]
    /\ ledger_file = [readable |-> TRUE, entries |-> <<>>]
    /\ clock = 0

\* two instances of the application run in one working directory, with the
\* AWS credentials entered or with none
InitApp ==
    /\ AppStart
    /\ credentials \in {[aws |-> {}, azure |-> {}, gcp |-> {}],
                        [aws |-> CredentialFields.aws, azure |-> {},
                         gcp |-> {}]}
    /\ scan_budget = MaxScans
    /\ faults_left = MaxFaults

NextApp ==
    \E a \in Apps :
        \/ StartScan(a)
        \/ WorkerRun(a)
        \/ PageOnScanComplete(a)
        \/ SaveLoad(a)
        \/ SaveLoadFails(a)
        \/ SaveWrite(a)
        \/ SaveWriteFails(a)
        \/ UpdatePages(a)

SpecApp == InitApp /\ [][NextApp]_vars

\* one instance, no credentials entered, scans again and again; the store
\* does not fail
InitHistory ==
    /\ AppStart
    /\ credentials = [aws |-> {}, azure |-> {}, gcp |-> {}]
    /\ scan_budget = MaxSaves
    /\ faults_left = 0

NextHistory ==
    \E a \in {"app1"} :
        \/ StartScan(a)
        \/ WorkerRun(a)
        \/ PageOnScanComplete(a)
        \/ SaveLoad(a)
        \/ SaveWrite(a)
        \/ UpdatePages(a)

SpecHistory == InitHistory /\ [][NextHistory]_vars

\* ------------------------------------------------------------------------
\* Properties
\* ------------------------------------------------------------------------

\* the category of a title by the rule table of the specification, in its
\* priority order; "none" when no rule holds
SpecAttackCategory(finding) ==
    LET title == Lower(Get(finding, "title", <<>>))
    IN  IF Contains(title, KW_public_s3) THEN "s3_exfiltration"
        ELSE IF Contains(title, KW_over_permissive_iam) THEN "iam_escalation"
        ELSE IF Contains(title, KW_cloudtrail) /\ Contains(title, KW_not)
            THEN "stealth_persistence"
        ELSE IF Contains(title, KW_public_storage) THEN "azure_malware"
        ELSE IF Contains(title, KW_https) /\ Contains(title, KW_not_enforced)
            THEN "mitm_attack"
        ELSE IF Contains(title, KW_public_gcs) THEN "gcs_leak"
        ELSE IF Contains(title, KW_versioning) /\ Contains(title, KW_disabled)
            THEN "ransomware_attack"
        ELSE "none"

\* the positions of the attack paths of category key: each category has
\* its own title
PathsOfCategory(paths, key) ==
    { i \in DOMAIN paths : paths[i].title = AttackTemplate(key).title }

\* C1: the list returned by generate_attack_paths never holds two attack
\* paths of the same category, and when two or more of the findings belong
\* to a category (by the first rule of the specification's order that their
\* title satisfies) the list holds exactly one attack path of that category.
C1_AttackPathDedup ==
    pc = "call_analyze" =>
        /\ \A key \in AttackKeys :
              Cardinality(PathsOfCategory(attack_paths[1], key)) <= 1
        /\ \A i, j \in DOMAIN findings :
              i < j /\ SpecAttackCategory(findings[i]) # "none"
                    /\ SpecAttackCategory(findings[i])
                         = SpecAttackCategory(findings[j])
                => Cardinality(PathsOfCategory(attack_paths[1],
                       SpecAttackCategory(findings[i]))) = 1

\* two findings of the https category, the first of which also satisfies
\* the public gcs rule, have been processed
C1_Witness ==
    /\ attack_paths # <<>>
    /\ Len(findings) >= 2
    /\ findings[1].title = T_HttpsPublicGcs
    /\ SpecAttackCategory(findings[2]) = "mitm_attack"
    /\ Cardinality(PathsOfCategory(attack_paths[1], "mitm_attack")) = 1

ScriptsOfCategory(scripts, key) ==
    { i \in DOMAIN scripts : scripts[i].title = RemediationTemplate(key).title }

\* C2: the list returned by RemediationEngine.generate holds at most one
\* script per remediation category, however many findings match it.
C2_RemediationDedup ==
    remediation_scripts # <<>> =>
        \A key \in RemediationKeys :
            Cardinality(ScriptsOfCategory(remediation_scripts[1], key)) <= 1

\* two findings whose title holds "public s3 bucket" have been processed
\* and one script was written for them
C2_Witness ==
    /\ remediation_scripts # <<>>
    /\ Cardinality({ i \in DOMAIN findings :
           Contains(Lower(Get(findings[i], "title", <<>>)),
                    KW_public_s3_bucket) }) >= 2
    /\ Cardinality(ScriptsOfCategory(remediation_scripts[1], "s3_public")) = 1

\* C3: the security_score of every analyze call is within 0..100.
C3_ScoreClamped ==
    \A i \in DOMAIN calls :
        /\ calls[i].risk.security_score >= 0
        /\ calls[i].risk.security_score <= 100

\* a call whose penalties add up to more than 100
C3_Witness ==
    \E i \in DOMAIN calls :
        /\ RawScore(calls[i].findings, calls[i].attacks) < 0
        /\ calls[i].risk.security_score = 0

\* C4: the risk_level of every analyze call is the band of its score: Low
\* from 80, Medium from 60 to 79, High from 40 to 59, Critical below 40.
C4_LevelMatchesScore ==
    \A i \in DOMAIN calls :
        LET score == calls[i].risk.security_score
            level == calls[i].risk.risk_level
        IN  /\ level = "Low" <=> score >= 80
            /\ level = "Medium" <=> (60 <= score /\ score < 80)
            /\ level = "High" <=> (40 <= score /\ score < 60)
            /\ level = "Critical" <=> score < 40

\* a call that scored exactly 60 and one, on one more Critical finding,
\* that scored below 60
C4_Witness ==
    /\ Len(calls) = 2
    /\ calls[1].risk.security_score = 60
    /\ calls[1].risk.risk_level = "Medium"
    /\ calls[2].risk.risk_level = "High"

\* c2 is a call on the findings of c1 and one more Critical finding, with
\* the same attacks
OneMoreCritical(c1, c2) ==
    /\ c2.attacks = c1.attacks
    /\ Len(c2.findings) = Len(c1.findings) + 1
    /\ SubSeq(c2.findings, 1, Len(c1.findings)) = c1.findings
    /\ Get(c2.findings[Len(c2.findings)], "severity", "Info") = "Critical"

\* C5: a call on one more Critical finding never scores higher, and a call
\* on no findings and no attacks scores 100, level Low.
C5_ScoreMonotone ==
    /\ Len(calls) = 2 /\ OneMoreCritical(calls[1], calls[2])
         => calls[2].risk.security_score <= calls[1].risk.security_score
    /\ \A i \in DOMAIN calls :
         calls[i].findings = <<>> /\ calls[i].attacks = <<>>
           => /\ calls[i].risk.security_score = 100
              /\ calls[i].risk.risk_level = "Low"

\* two calls, the second on one more Critical finding, with a lower score
C5_Witness ==
    /\ Len(calls) = 2
    /\ OneMoreCritical(calls[1], calls[2])
    /\ calls[2].risk.security_score < calls[1].risk.security_score

\* C6: two analyze calls on the same findings and attacks return the same
\* security_score, risk_level, top_risks and summary.
C6_Deterministic ==
    Len(calls) = 2
      /\ calls[1].findings = calls[2].findings
      /\ calls[1].attacks = calls[2].attacks
      => calls[1].risk = calls[2].risk

\* the input of scenario 3: an AWS Critical public S3 bucket finding and an
\* Azure Warning HTTPS finding
IsScenario3(fs) ==
    /\ Len(fs) = 2
    /\ fs[1] = Finding(T_PublicS3Acme, "Critical", "AWS")
    /\ fs[2] = Finding(T_HttpsNotEnforced, "Warning", "Azure")

\* C7 as stated: scenario 3 scores 37, level Critical, with the multi-cloud
\* penalty for the clouds AWS and Azure.
C7_Scenario3Scores37 ==
    pc = "call_done" /\ IsScenario3(findings) =>
        /\ risk_analysis[1].security_score = 37
        /\ risk_analysis[1].risk_level = "Critical"
        /\ affected_clouds(findings) = {"AWS", "Azure"}
        /\ MultiCloudPenalty(findings) = 10

\* C7 amended: scenario 3 scores 47, level High: 100 - 15 - 8 for the
\* findings, - 20 for the S3 attack, nothing for the Warning
\* man-in-the-middle attack, - 10 for the clouds AWS and Azure.
C7_Scenario3Scores47 ==
    pc = "call_done" /\ IsScenario3(findings) =>
        /\ risk_analysis[1].security_score = 47
        /\ risk_analysis[1].risk_level = "High"
        /\ affected_clouds(findings) = {"AWS", "Azure"}
        /\ MultiCloudPenalty(findings) = 10
        /\ [i \in 1..2 |-> attack_paths[1][i].severity]
             = <<"Critical", "Warning">>

C7_Witness ==
    /\ pc = "call_done"
    /\ IsScenario3(findings)
    /\ Len(attack_paths[1]) = 2

\* C8: the single finding Public S3 Bucket: 'acme-data' (Critical, AWS)
\* yields one attack path S3 Data Exfiltration Attack of severity Critical,
\* one remediation script with the resource acme-data, score 65, level
\* Medium.
C8_Scenario2 ==
    pc = "call_done"
      /\ findings = <<Finding(T_PublicS3Acme, "Critical", "AWS")>> =>
        /\ Len(attack_paths[1]) = 1
        /\ attack_paths[1][1].title =
             <<"S3", " ", "Data", " ", "Exfiltration", " ", "Attack">>
        /\ attack_paths[1][1].severity = "Critical"
        /\ Len(remediation_scripts[1]) = 1
        /\ remediation_scripts[1][1].resource = <<"acme", "-", "data">>
        /\ risk_analysis[1].security_score = 65
        /\ risk_analysis[1].risk_level = "Medium"

C8_Witness ==
    /\ pc = "call_done"
    /\ findings = <<Finding(T_PublicS3Acme, "Critical", "AWS")>>
    /\ Len(remediation_scripts[1]) = 1

\* no provider has all of its credential fields
NoProviderConfigured ==
    \A p \in DOMAIN CredentialFields : credentials[p] # CredentialFields[p]

\* the no-credentials result: one Info finding of the cloud System, no
\* attacks, no remediation, score 100, level Low, no top risks
IsSentinel(r) ==
    /\ Len(r.findings) = 1
    /\ r.findings[1].severity = "Info"
    /\ r.findings[1].cloud = "System"
    /\ r.attacks = <<>>
    /\ r.remediation = <<>>
    /\ r.risk.security_score = 100
    /\ r.risk.risk_level = "Low"
    /\ r.risk.top_risks = <<>>

\* C9: called with no provider's credentials configured, run_cloud_scan
\* returns the no-credentials result.
C9_NoCredentialsResult ==
    pc = "scan_returned" /\ NoProviderConfigured => IsSentinel(result[1])

C9_Witness ==
    /\ pc = "scan_returned"
    /\ NoProviderConfigured
    /\ IsSentinel(result[1])

\* C10: run_cloud_scan returns the no-credentials result exactly when no
\* provider is configured; when providers are configured and all of them
\* fail, it returns the engines' output over the failure findings.
C10_SentinelOnlyWithoutCredentials ==
    pc = "scan_returned" =>
        /\ IsSentinel(result[1]) <=> NoProviderConfigured
        /\ ~NoProviderConfigured /\ scanned_clouds = <<>>
             => /\ result[1].findings = all_findings
                /\ result[1].attacks = generate_attack_paths(all_findings)
                /\ result[1].remediation = generate(all_findings)

\* the cloud name a provider's findings carry
CloudOf(provider) ==
    CASE provider = "aws" -> "AWS"
      [] provider = "azure" -> "Azure"
      [] provider = "gcp" -> "GCP"

\* the provider's run_checks was called and raised
Raised(provider) ==
    /\ provider \in invoked
    /\ provider_findings[provider] = <<>>
    /\ pc # "scan_blocked"

\* the findings a provider returned, none when it did not return
Returned(provider) ==
    IF provider_findings[provider] = <<>> THEN <<>>
    ELSE provider_findings[provider][1]

\* a finding synthesized by an except clause of run_cloud_scan
IsErrorFinding(f) ==
    \E p \in DOMAIN CredentialFields : f = ScanErrorFinding(CloudOf(p))

\* C11: for every configured provider whose run_checks raised, the returned
\* findings hold exactly one Warning finding of that provider's cloud that
\* reports the failure, whatever the other providers did.
C11_OneFailureFindingPerRaise ==
    pc = "scan_returned" =>
        \A p \in DOMAIN CredentialFields :
            Raised(p) =>
                Cardinality(
                    {i \in DOMAIN result[1].findings :
                        /\ result[1].findings[i].severity = "Warning"
                        /\ result[1].findings[i].cloud = CloudOf(p)
                        /\ result[1].findings[i].title = T_ScanError(CloudOf(p))})
                  = 1

\* C12: a provider that raises does not end the scan: every configured
\* provider's run_checks is called, and the findings of each provider that
\* returned stand, unbroken and in order, in the returned findings.
C12_FailureDoesNotAbort ==
    /\ pc \in {"scan_check", "scan_risk", "scan_remediation", "scan_return",
                "scan_returned"}
         => invoked = {p \in DOMAIN CredentialFields : Configured(p)}
    /\ pc = "scan_returned" =>
         \A p \in DOMAIN CredentialFields :
             provider_findings[p] # <<>> =>
                 \E k \in 0..Len(result[1].findings) :
                     /\ k + Len(Returned(p)) <= Len(result[1].findings)
                     /\ \A i \in DOMAIN Returned(p) :
                            result[1].findings[k + i] = Returned(p)[i]

C12_Witness ==
    /\ pc = "scan_returned"
    /\ Raised("aws")
    /\ {"azure", "gcp"} \subseteq invoked
    /\ Returned("azure") # <<>>
    /\ Returned("gcp") # <<>>
    /\ \A i \in DOMAIN Returned("gcp") :
          \E j \in DOMAIN result[1].findings :
              result[1].findings[j] = Returned("gcp")[i]

\* C13: when some provider returned, the returned findings, the
\* synthesized failure findings set aside, are the AWS findings, then the
\* Azure findings, then the GCP findings, each as its provider returned
\* them.
C13_MergeOrder ==
    pc = "scan_returned" /\ scanned_clouds # <<>> =>
        SelectSeq(result[1].findings, LAMBDA f : ~IsErrorFinding(f))
          = Returned("aws") \o Returned("azure") \o Returned("gcp")

C13_Witness ==
    /\ pc = "scan_returned"
    /\ Returned("aws") # <<>>
    /\ Returned("azure") # <<>>
    /\ Returned("gcp") # <<>>
    /\ result[1].findings
         = Returned("aws") \o Returned("azure") \o Returned("gcp")

\* C14: in the returned findings every synthesized failure finding comes
\* after all findings supplied by providers.
C14_ErrorFindingsLast ==
    pc = "scan_returned" =>
        \A i, j \in DOMAIN result[1].findings :
            i < j /\ IsErrorFinding(result[1].findings[i])
                => IsErrorFinding(result[1].findings[j])

\* C18: every call of run_cloud_scan returns a result, a provider that
\* never answers included.
C18_ScanReturns == <>(pc = "scan_returned")

\* the attack paths when each finding counts only under the first rule of
\* the chain that its title satisfies
RECURSIVE FirstRuleOnly(_, _)
FirstRuleOnly(acc, fs) ==
    IF fs = <<>> THEN acc.attack_paths
    ELSE LET title == Lower(Get(Head(fs), "title", <<>>))
             key == AttackBranch(title, {})
         IN  IF key = "none" \/ key \in acc.processed_types
                 THEN FirstRuleOnly(acc, Tail(fs))
             ELSE FirstRuleOnly(
                      [attack_paths |->
                           AttackLoopBody([attack_paths |-> acc.attack_paths,
                                           processed_types |-> {}],
                                          Head(fs)).attack_paths,
                       processed_types |-> acc.processed_types \cup {key}],
                      Tail(fs))

\* C20: a finding is classified by the first rule its title satisfies only;
\* when that rule's category has already produced an attack path the
\* finding adds no attack path, a later rule that its title satisfies
\* notwithstanding.
C20_FirstRuleOnly ==
    pc = "call_analyze" =>
        attack_paths[1]
          = FirstRuleOnly([attack_paths |-> <<>>, processed_types |-> {}],
                          findings)

\* a save_scan call of the application has run to its end
SaveDone(a) == gui[a].pc \in {"update_pages", "idle"}

\* C15: after n successful save_scan calls on an empty ledger the file
\* holds the last min(n, 50) entries in the order they were appended, its
\* length is never above 50, and after 51 saves total_scans is 50 and the
\* first entry is gone.
C15_LedgerKeepsLast50 ==
    /\ Len(ledger_file.entries) <= 50
    /\ SaveDone("app1") =>
          LET n == clock
              k == Min(n, 50)
          IN  ledger_file.entries
                = [i \in 1..k |-> HistoryEntry(NoCredentialsResult, n - k + i)]
    /\ SaveDone("app1") /\ clock = 51 =>
          /\ get_stats.total_scans = 50
          /\ \A i \in DOMAIN ledger_file.entries :
                ledger_file.entries[i].timestamp # 1

C15_Witness ==
    /\ SaveDone("app1")
    /\ clock = 51
    /\ Len(ledger_file.entries) = 50
    /\ ledger_file.entries[1].timestamp = 2
    /\ ledger_file.entries[50].timestamp = 51

\* C16: a store that cannot be read or written does not stop the
\* completion handler: whenever the handler has come to its end, the
\* dashboard and the report page hold the result it was called with.
C16_SaveErrorsSwallowed ==
    \A a \in Apps :
        gui[a].pc = "idle" /\ gui[a].result # <<>> =>
            /\ pages[a].dashboard = gui[a].result
            /\ pages[a].report = gui[a].result

C16_Witness ==
    \E a \in Apps :
        /\ gui[a].pc = "idle"
        /\ gui[a].error
        /\ gui[a].result # <<>>
        /\ pages[a].dashboard = gui[a].result
        /\ pages[a].report = gui[a].result

\* C17: with no store fault, once all started scans have been handled the
\* ledger holds the entry of every save_scan call, overlapping calls
\* included.
C17_NoLostUpdate ==
    /\ faults_left = MaxFaults
    /\ \A a \in Apps : /\ gui[a].pc = "idle"
                       /\ running[a] = 0
                       /\ finished_signal[a] = <<>>
    => \A t \in 1..clock :
           \E i \in DOMAIN ledger_file.entries :
               ledger_file.entries[i].timestamp = t

\* the workers of an application that were started and whose
\* finished_signal has not been handled
InFlight(a) == running[a] + Len(finished_signal[a])

\* C19: an application has at most one scan in flight, and while one is in
\* flight its scan button is disabled.
C19_OneScanInFlight ==
    \A a \in Apps :
        /\ InFlight(a) <= 1
        /\ InFlight(a) = 1 => ~scan_btn[a]

\* a second scan of the same window is in flight, the first one handled
C19_Witness ==
    \E a \in Apps :
        /\ InFlight(a) = 1
        /\ ~scan_btn[a]
        /\ pages[a].dashboard # <<>>
        /\ gui[a].pc = "idle"

\* C21: the first finding of a run, for which no category has been emitted
\* yet, yields the attack path of the earliest rule it satisfies in the
\* order public s3, over-permissive iam, cloudtrail+not, public storage,
\* https+not enforced, public gcs, versioning+disabled.
C21_PriorityOrder ==
    pc = "call_analyze" /\ findings # <<>> =>
        LET key == SpecAttackCategory(findings[1])
        IN  IF key = "none"
                THEN Len(findings) = 1 => attack_paths[1] = <<>>
            ELSE /\ attack_paths[1] # <<>>
                 /\ attack_paths[1][1].title = AttackTemplate(key).title

\* the number of dicts of seq whose severity is sev
CountSeverity(seq, sev) ==
    Cardinality({i \in DOMAIN seq : seq[i].severity = sev})

\* every dict of seq carries the fields
HasFields(seq, fields) ==
    \A i \in DOMAIN seq : fields \subseteq DOMAIN seq[i]

\* the score of the specification's formula
FormulaScore(fs, as) ==
    LET clouds == {fs[i].cloud : i \in DOMAIN fs} \ {"System"}
        risky == {i \in DOMAIN as :
                     \/ Contains(Lower(as[i].title), KW_persistence)
                     \/ Contains(Lower(as[i].title), KW_privilege_escalation)}
        raw == 100 - 15 * CountSeverity(fs, "Critical")
                   - 8 * CountSeverity(fs, "Warning")
                   - 3 * CountSeverity(fs, "Info")
                   - 20 * CountSeverity(as, "Critical")
                   - 15 * CountSeverity(as, "High")
                   - 10 * CountSeverity(as, "Medium")
                   - (IF Cardinality(clouds) > 1 THEN 10 ELSE 0)
                   - 10 * Cardinality(risky)
    IN  IF raw < 0 THEN 0 ELSE IF raw > 100 THEN 100 ELSE raw

SeverityRank(sev) ==
    CASE sev = "Critical" -> 0
      [] sev = "High" -> 1
      [] sev = "Medium" -> 2
      [] sev = "Warning" -> 3
      [] sev = "Info" -> 4

\* the place of as[i] after a stable sort by rank
StablePlace(as, i) ==
    1 + Cardinality({j \in DOMAIN as :
            \/ SeverityRank(as[j].severity) < SeverityRank(as[i].severity)
            \/ /\ SeverityRank(as[j].severity) = SeverityRank(as[i].severity)
               /\ j < i})

\* C23: for attacks that carry a severity, top_risks has min(3, number of
\* attacks) titles, and its title at place p is that of the attack a
\* stable sort by rank Critical, High, Medium, Warning, Info puts at place
\* p: equal severities keep their input order, and an attack is left out
\* only when three attacks come before it.
C23_TopRisksStableSort ==
    \A k \in DOMAIN calls :
        LET as == calls[k].attacks
            top == calls[k].risk.top_risks
        IN  HasFields(as, {"severity", "title"}) =>
                /\ Len(top) = Min(3, Len(as))
                /\ \A i \in DOMAIN as :
                      StablePlace(as, i) <= 3
                          => top[StablePlace(as, i)] = as[i].title

\* four attacks, the Critical one last in the input and first in
\* top_risks, a Warning one left out, two of equal severity in input order
C23_Witness ==
    \E k \in DOMAIN calls :
        LET as == calls[k].attacks
            top == calls[k].risk.top_risks
        IN  /\ Len(as) = 4
            /\ HasFields(as, {"severity", "title"})
            /\ as[1].severity = "Warning"
            /\ as[2].severity = "High"
            /\ as[3].severity = "Critical"
            /\ as[4].severity = "Critical"
            /\ as[3].title # as[4].title
            /\ top = <<as[3].title, as[4].title, as[2].title>>

\* after is before, or before with one item more at its end
ExtendsByAtMostOne(before, after) ==
    \/ after = before
    \/ /\ Len(after) = Len(before) + 1
       /\ SubSeq(after, 1, Len(before)) = before

\* C24: both engines build their output in first-encounter order: the
\* finding at each position adds at most one item, behind the items of all
\* findings before it, and an attack path holds the cloud of the finding
\* that added it.
C24_FirstEncounterOrder ==
    pc = "call_done" =>
        /\ attack_paths[1] = generate_attack_paths(findings)
        /\ remediation_scripts[1] = generate(findings)
        /\ \A p \in DOMAIN findings :
              LET before == generate_attack_paths(SubSeq(findings, 1, p - 1))
                  after == generate_attack_paths(SubSeq(findings, 1, p))
              IN  /\ ExtendsByAtMostOne(before, after)
                  /\ after # before =>
                        after[Len(after)].cloud
                          = Get(findings[p], "cloud", "Unknown")
        /\ \A p \in DOMAIN findings :
              ExtendsByAtMostOne(generate(SubSeq(findings, 1, p - 1)),
                                 generate(SubSeq(findings, 1, p)))

\* three findings, each of which added an attack path and a script, the
\* paths holding the findings' clouds in the findings' order
C24_Witness ==
    /\ pc = "call_done"
    /\ Len(findings) = 3
    /\ Len(attack_paths[1]) = 3
    /\ Len(remediation_scripts[1]) = 3
    /\ HasFields(findings, {"cloud"})
    /\ \A i \in 1..3 : attack_paths[1][i].cloud = findings[i].cloud
    /\ findings[1].cloud # findings[2].cloud

\* the script the finding at position p of fs adds to the output of
\* generate, <<>> when it adds none
ScriptAddedBy(fs, p) ==
    LET before == generate(SubSeq(fs, 1, p - 1))
        after == generate(SubSeq(fs, 1, p))
    IN  IF Len(after) = Len(before) THEN <<>> ELSE <<after[Len(after)]>>

\* the first quoted token of a title, <<>> when it holds none
FirstQuotedToken(title) ==
    IF \A i, j \in DOMAIN title : <<i, j>> \notin QuotedMatches(title)
        THEN <<>>
    ELSE LET i == CHOOSE a \in DOMAIN title :
                     /\ \E b \in DOMAIN title : <<a, b>> \in QuotedMatches(title)
                     /\ \A c \in DOMAIN title :
                           (\E d \in DOMAIN title :
                               <<c, d>> \in QuotedMatches(title)) => a <= c
             j == CHOOSE b \in DOMAIN title : <<i, b>> \in QuotedMatches(title)
         IN  <<SubSeq(title, i + 1, j - 1)>>

\* the category of a script
ScriptCategory(script) ==
    CHOOSE key \in RemediationKeys :
        RemediationTemplate(key).title = script.title

\* the word a category's branch looks for in the title
CategoryWord(key) ==
    CASE key = "iam_permissive" -> KW_role
      [] key = "cloudtrail_disabled" -> KW_trail
      [] key \in {"azure_storage", "azure_https"} -> KW_storage
      [] key \in {"gcs_public", "gcs_versioning"} -> KW_bucket

\* the placeholder of a category
CategoryPlaceholder(key) ==
    CASE key = "iam_permissive" -> <<"<ROLE_NAME>">>
      [] key = "cloudtrail_disabled" -> <<"security", "-", "trail">>
      [] key \in {"azure_storage", "azure_https"} -> <<"<STORAGE_ACCOUNT>">>
      [] key \in {"gcs_public", "gcs_versioning"} -> <<"<BUCKET_NAME>">>

\* the title names the kind of resource of the script's category
NamesItsResource(key, title) ==
    key = "s3_public" \/ Contains(Lower(title), CategoryWord(key))

PlaceholderCategories ==
    {"iam_permissive", "azure_storage", "azure_https", "gcs_public",
     "gcs_versioning"}

\* C26 as stated: a script of one of these categories whose finding's
\* title holds no quoted token has the category's placeholder as resource.
C26_CategoryPlaceholder ==
    pc = "call_done" =>
        \A p \in DOMAIN findings :
            LET a == ScriptAddedBy(findings, p)
            IN  /\ a # <<>>
                /\ FirstQuotedToken(findings[p].title) = <<>>
                /\ ScriptCategory(a[1]) \in PlaceholderCategories
                => a[1].resource = CategoryPlaceholder(ScriptCategory(a[1]))

\* C26 amended: for a title without a quoted token the resource is the
\* category's placeholder when the title lacks the word of the category
\* (role, storage, bucket), and the generic "<RESOURCE_NAME>" when the
\* title holds that word.
C26_PlaceholderByCategoryWord ==
    pc = "call_done" =>
        \A p \in DOMAIN findings :
            LET a == ScriptAddedBy(findings, p)
            IN  /\ a # <<>>
                /\ FirstQuotedToken(findings[p].title) = <<>>
                /\ ScriptCategory(a[1]) \in PlaceholderCategories
                => /\ a[1] \in {remediation_scripts[1][i] :
                                   i \in DOMAIN remediation_scripts[1]}
                   /\ a[1].resource
                        = IF Contains(Lower(findings[p].title),
                                      CategoryWord(ScriptCategory(a[1])))
                              THEN RESOURCE_NAME
                          ELSE CategoryPlaceholder(ScriptCategory(a[1]))

\* two titles without quoted token: the one that holds the word role gave
\* the generic placeholder, the one without the word bucket gave the
\* category's
C26_Witness ==
    /\ pc = "call_done"
    /\ Len(findings) = 2
    /\ findings[1].title = T_IamRole
    /\ findings[2].title = T_VersioningDisabled
    /\ Len(remediation_scripts[1]) = 2
    /\ remediation_scripts[1][1].resource = RESOURCE_NAME
    /\ remediation_scripts[1][2].resource = <<"<BUCKET_NAME>">>

\* C27 as stated: on the no-credentials path the returned attacks,
\* remediation, score and level are what the three engines give for the
\* returned findings.
C27_SentinelIsEngineOutput ==
    pc = "scan_returned" /\ scanned_clouds = <<>> =>
        LET fs == result[1].findings
            as == generate_attack_paths(fs)
        IN  /\ result[1].attacks = as
            /\ result[1].remediation = generate(fs)
            /\ result[1].risk.security_score = security_score(fs, as)
            /\ result[1].risk.risk_level
                 = risk_level(security_score(fs, as))

\* C27 amended: the engines give no attacks, no remediation and the level
\* Low for the sentinel finding, as the no-credentials result has, but
\* they score it 97 (100 less 3 for the Info finding), where the
\* no-credentials result holds 100.
C27_SentinelScoredApart ==
    pc = "scan_returned" /\ scanned_clouds = <<>> =>
        LET fs == result[1].findings
            as == generate_attack_paths(fs)
        IN  /\ result[1].attacks = as
            /\ as = <<>>
            /\ result[1].remediation = generate(fs)
            /\ generate(fs) = <<>>
            /\ result[1].risk.risk_level = risk_level(security_score(fs, as))
            /\ result[1].risk.risk_level = "Low"
            /\ security_score(fs, as) = 97
            /\ result[1].risk.security_score = 100

C27_Witness ==
    /\ pc = "scan_returned"
    /\ scanned_clouds = <<>>
    /\ result[1].findings = <<Finding(T_NoCredentials, "Info", "System")>>
    /\ security_score(result[1].findings, <<>>) = 97
    /\ result[1].risk.security_score = 100

\* a finding with the defaults of the specification in place of missing
\* fields
WithDefaults(f) ==
    [title |-> Get(f, "title", <<>>),
     severity |-> Get(f, "severity", "Info"),
     cloud |-> Get(f, "cloud", "Unknown")]

\* C28: for findings that lack fields the engines return, every attack
\* path holds the cloud of a finding or Unknown, and the score is the one
\* of findings in which a missing severity is Info and a missing cloud is
\* the cloud Unknown, counted among the affected clouds.
C28_SameDefaults ==
    pc = "call_done" =>
        /\ \A i \in DOMAIN attack_paths[1] :
              attack_paths[1][i].cloud
                \in {WithDefaults(findings[p]).cloud : p \in DOMAIN findings}
        /\ risk_analysis[1].security_score
             = FormulaScore([p \in DOMAIN findings |-> WithDefaults(findings[p])],
                            attack_paths[1])

\* st is what the specification asks of the statistics of the ledger in
\* file: the count, the mean score rounded down, and <<>> ("Never") as
\* last scan exactly for the empty ledger, else the time of the last entry
StatsOf(st, file) ==
    LET h == IF file.readable THEN file.entries ELSE <<>>
        n == Len(h)
        total == Sum([i \in DOMAIN h |-> h[i].security_score])
    IN  /\ st.total_scans = n
        /\ n > 0 => /\ st.avg_score * n <= total
                    /\ total < (st.avg_score + 1) * n
                    /\ st.last_scan = <<h[n].timestamp>>
        /\ st.last_scan = <<>> <=> n = 0

\* C29: the statistics the dashboard reads at the end of a completion
\* handler are those of the whole ledger as it is then: total_scans its
\* length, avg_score the mean security_score rounded down, last_scan
\* "Never" exactly when it is empty and else the time of its last entry.
C29_StatsOfLedger ==
    [][\A a \in Apps :
          gui[a].pc = "update_pages" /\ gui'[a].pc = "idle"
              => StatsOf(pages'[a].stats[1], ledger_file)]_vars

\* the dashboard has shown the statistics of two entries whose mean is
\* not a whole number, and another dashboard those of the empty ledger
C29_Witness ==
    \E a \in Apps :
        /\ pages[a].stats # <<>>
        /\ pages[a].stats[1].total_scans = 2
        /\ pages[a].stats[1].avg_score = 82
        /\ ledger_file.entries[1].security_score
             + ledger_file.entries[2].security_score = 165

C29_WitnessNever ==
    \E a \in Apps :
        /\ pages[a].stats # <<>>
        /\ pages[a].stats[1].last_scan = <<>>
        /\ pages[a].stats[1].total_scans = 0

\* C30: a load of the ledger that fails does not end save_scan: the list
\* it appends to is empty, and the write that follows, when it succeeds,
\* leaves a ledger holding the new entry alone.
C30_FailedLoadStartsAfresh ==
    [][\A a \in Apps :
          /\ (gui[a].pc = "save_load" /\ gui'[a].load_error)
                => /\ gui'[a].pc = "save_write"
                   /\ gui'[a].history
                        = <<HistoryEntry(gui[a].result[1], clock')>>
          /\ (/\ gui[a].pc = "save_write"
              /\ gui[a].load_error
              /\ gui'[a].pc = "update_pages"
              /\ ~gui'[a].error)
                => /\ ledger_file'.readable
                   /\ \E t \in 1..clock :
                        ledger_file'.entries
                            = <<HistoryEntry(gui[a].result[1], t)>>]_vars

\* the dashboard of an application showed a ledger of one entry, the load
\* of its next save failed, and the ledger now holds the later entry alone
C30_Witness ==
    \E a \in Apps :
        /\ gui[a].pc = "update_pages"
        /\ gui[a].load_error
        /\ ~gui[a].error
        /\ pages[a].stats # <<>>
        /\ pages[a].stats[1].total_scans = 1
        /\ ledger_file.readable
        /\ Len(ledger_file.entries) = 1
        /\ ledger_file.entries = gui[a].history
        /\ ledger_file.entries[1].timestamp > pages[a].stats[1].last_scan[1]

====
